---- MODULE Spec2Model ----
(***************************************************************************)
(* Model of js/game.js: the gradient-noise field, its fractal composition, *)
(* the chunk cache of Terrain, and the Game session that drives it.        *)
(*                                                                         *)
(* Numbers.  The program computes in IEEE doubles.  The model computes in  *)
(* fixed point: a real r is the integer floor(r * ONE).  Tile indices,     *)
(* chunk coordinates, table entries, octave counts and milliseconds are    *)
(* plain integers.  Every product or quotient of two fixed-point numbers   *)
(* goes through Mul or Div, in the order the source evaluates it.          *)
(***************************************************************************)
EXTENDS Integers, Sequences, FiniteSets, TLC

\* ==== STATE ====
VARIABLES
  p,          \* ImprovedNoise.#p
  chunkSize,  \* Terrain.#chunkSize
  terrain,    \* Terrain.#chunks with the construction and call counters
  player, monster, camera, lastTime,   \* the fields of Game
  op,         \* the last call and what it returned
  ops,        \* the number of calls (frames) made so far
  cams,       \* the camera chunk of every draw made so far
  probes      \* the chunk of every position getValue was asked for so far

vars == <<p, chunkSize, terrain, player, monster, camera, lastTime, op, ops, cams, probes>>

\* Fixed-point scale: the resolution of the modelled doubles.
ONE == 100

Mul(a, b) == (a * b) \div ONE
Div(a, b) == (a * ONE) \div b
\* Math.floor of a fixed-point number, as an integer.
Floor(x) == x \div ONE
\* An integer as a fixed-point number.
Fix(n) == n * ONE
\* A decimal literal n/d of the source as a fixed-point number.
Lit(n, d) == (n * ONE) \div d
\* JS remainder: the sign of the dividend (truncating division).
JsRem(a, b) == IF a >= 0 THEN a % b ELSE -((-a) % b)

\* ==== GLOBAL CONFIG ====
TILE_SIZE == 20

\* Fault: lerp with its end points exchanged.
lerpSwapped(t, a, b) == b + Mul(t, a - b)

lerp(t, a, b) == a + Mul(t, b - a)

\* Math.exp(-z) for a fixed-point z >= 0: below the resolution from z = 5 on
\* (e^-5 < 1/ONE), otherwise e^-1 per whole unit, then the Taylor polynomial
\* of degree 4 on the remaining fraction.
RECURSIVE ExpNeg(_)
ExpNeg(z) ==
  IF z >= Fix(5) THEN 0
  ELSE IF z >= ONE
  THEN LET r == ExpNeg(z - ONE) IN IF r = 0 THEN 0 ELSE Mul(Lit(3679, 10000), r)
  ELSE LET z2 == Mul(z, z)
           z3 == Mul(z2, z)
           z4 == Mul(z3, z)
       IN ONE - z + z2 \div 2 - z3 \div 6 + z4 \div 24

\* deltaTime in milliseconds (an integer), speed a fixed-point number.
getLerpFactor(deltaTime, speed) == ONE - ExpNeg(speed * deltaTime)

\* Math.hypot: the integer square root of dx^2 + dy^2, by bisection.
RECURSIVE SqrtBetween(_, _, _)
SqrtBetween(n, lo, hi) ==
  IF lo >= hi THEN lo
  ELSE LET mid == (lo + hi + 1) \div 2
       IN IF mid * mid <= n THEN SqrtBetween(n, mid, hi) ELSE SqrtBetween(n, lo, mid - 1)
Hypot(dx, dy) == SqrtBetween(dx * dx + dy * dy, 0, 46340)

\* ==== PERLIN NOISE CLASS ====
\* The outcomes of the 256 draws of Math.floor(Math.random() * 256) that the
\* model explores: entry i is (c*i*i + a*i + b) mod 256.  Each is a table the
\* constructor can produce; the first is not injective, the second is.
Draws(a, b, c) == [i \in 0..255 |-> (c * i * i + a * i + b) % 256]
RandomDraws == {Draws(1, 0, 1), Draws(1, 5, 2)}

\* constructor: this.#p = [...this.#p, ...this.#p]
ImprovedNoise(draws) == [i \in 0..511 |-> draws[i % 256]]
Tables == {ImprovedNoise(d) : d \in RandomDraws}
\* The table of the explorations that build whole windows of chunks.
WorldTables == {ImprovedNoise(Draws(1, 0, 1))}

fade(t) == Mul(Mul(Mul(t, t), t), Mul(t, Mul(t, Fix(6)) - Fix(15)) + Fix(10))

grad(hash, x, y) ==
  LET h == hash % 4
      u == IF h < 2 THEN x ELSE y
      v == IF h < 2 THEN y ELSE x
  IN (IF h % 2 = 0 THEN u ELSE -u) + (IF (h \div 2) % 2 = 0 THEN v ELSE -v)

noise(tbl, x0, y0) ==
  LET X == Floor(x0) % 256
      Y == Floor(y0) % 256
      x == x0 - Fix(Floor(x0))
      y == y0 - Fix(Floor(y0))
      u == fade(x)
      v == fade(y)
      A == tbl[X] + Y
      B == tbl[X + 1] + Y
  IN lerp(v,
          lerp(u, grad(tbl[A], x, y), grad(tbl[B], x - ONE, y)),
          lerp(u, grad(tbl[A + 1], x, y - ONE), grad(tbl[B + 1], x - ONE, y - ONE)))

\* ==== FBM FUNCTION ====
RECURSIVE fbmLoop(_, _, _, _, _, _, _, _, _, _, _)
fbmLoop(i, x, y, tbl, octaves, lacunarity, gain, value, amplitude, frequency, maxValue) ==
  IF i < octaves
  THEN fbmLoop(i + 1, x, y, tbl, octaves, lacunarity, gain,
               value + Mul(noise(tbl, Mul(x, frequency), Mul(y, frequency)), amplitude),
               Mul(amplitude, gain), Mul(frequency, lacunarity), maxValue + amplitude)
  ELSE Div(value, maxValue)

fbm(x, y, tbl, octaves, lacunarity, gain) ==
  fbmLoop(0, x, y, tbl, octaves, lacunarity, gain, 0, ONE, ONE, 0)

\* ==== CHUNK CLASS ====
generateTiles(chunkX, chunkY, size, tbl) ==
  [y \in 0..(size - 1) |-> [x \in 0..(size - 1) |->
     LET worldX == chunkX * size + x
         worldY == chunkY * size + y
     IN fbm(worldX * Lit(3, 100), worldY * Lit(3, 100), tbl, 8, Lit(21, 10), Lit(45, 100))]]

\* The chunk coordinates of the bounded world the model explores.
MaxChunk == 4
World == (-MaxChunk)..(MaxChunk - 1)
\* The grid edge getChunk passes to the Chunk constructor.
CHUNK_EDGE == 16

\* generateTiles tabulated, one grid per table and chunk coordinate, so that
\* a grid is computed once per check: the bounded world for WorldTables, the
\* chunk of the origin for every table.
generatedTiles ==
  [k \in {<<t, cx, cy>> : t \in WorldTables, cx \in World, cy \in World}
         \cup {<<t, 0, 0>> : t \in Tables} |->
     generateTiles(k[2], k[3], CHUNK_EDGE, k[1])]

\* constructor(chunkX, chunkY, tileSize, size, noise)
Chunk(chunkX, chunkY, tileSize, size, tbl) ==
  [chunkX |-> chunkX, chunkY |-> chunkY, tileSize |-> tileSize, size |-> size,
   tiles |-> IF <<tbl, chunkX, chunkY>> \in DOMAIN generatedTiles /\ size = CHUNK_EDGE
             THEN generatedTiles[<<tbl, chunkX, chunkY>>]
             ELSE generateTiles(chunkX, chunkY, size, tbl)]

\* ==== TERRAIN CLASS ====
\* A terrain state is [chunks, built, asked]: chunks is the Map #chunks;
\* built counts the Chunk constructions per key and asked the getChunk calls
\* per key (saturating at MaxCount): the instrumentation of the constructor.
MaxCount == 2

\* `${chunkX},${chunkY}`: the decimal rendering of two integers is injective.
Key(chunkX, chunkY) == <<chunkX, chunkY>>

Count(f, k) == IF k \in DOMAIN f THEN f[k] ELSE 0
\* Map.set: k :> v @@ f is f with key k set to v.
Bump(f, k) ==
  (k :> (IF Count(f, k) < MaxCount THEN Count(f, k) + 1 ELSE MaxCount)) @@ f

NewTerrain == [chunks |-> <<>>, built |-> <<>>, asked |-> <<>>]

\* Fault: getChunk without the has(key) test.
getChunkAlways(t, tbl, chunkX, chunkY) ==
  LET key == Key(chunkX, chunkY) IN
  [chunks |-> (key :> Chunk(chunkX, chunkY, TILE_SIZE, CHUNK_EDGE, tbl)) @@ t.chunks,
   built |-> Bump(t.built, key),
   asked |-> Bump(t.asked, key)]

\* Fault: getChunk that keeps only the chunk built last.
getChunkEvicting(t, tbl, chunkX, chunkY) ==
  LET key == Key(chunkX, chunkY) IN
  IF key \notin DOMAIN t.chunks
  THEN [chunks |-> (key :> Chunk(chunkX, chunkY, TILE_SIZE, CHUNK_EDGE, tbl)),
        built |-> Bump(t.built, key),
        asked |-> Bump(t.asked, key)]
  ELSE [t EXCEPT !.asked = Bump(t.asked, key)]

getChunk(t, tbl, chunkX, chunkY) ==
  LET key == Key(chunkX, chunkY) IN
  IF key \notin DOMAIN t.chunks
  THEN [chunks |-> (key :> Chunk(chunkX, chunkY, TILE_SIZE, CHUNK_EDGE, tbl)) @@ t.chunks,
        built |-> Bump(t.built, key),
        asked |-> Bump(t.asked, key)]
  ELSE [t EXCEPT !.asked = Bump(t.asked, key)]

Water == "#3366cc"
Sand == "#e2ca76"
Grass == "#996633"
Dirt == "#669933"
Rock == "#cccccc"
Snow == "#ffffff"

Norm(value) == (value + ONE) \div 2

\* Fault: getColor with the Water boundary closed (norm <= 0.43).
getColorClosed(value) ==
  LET norm == Norm(value) IN
  IF norm <= Lit(43, 100) THEN Water
  ELSE IF norm < Lit(45, 100) THEN Sand
  ELSE IF norm < Lit(48, 100) THEN Grass
  ELSE IF norm < Lit(65, 100) THEN Dirt
  ELSE IF norm < Lit(75, 100) THEN Rock
  ELSE Snow

getColor(value) ==
  LET norm == Norm(value) IN
  IF norm < Lit(43, 100) THEN Water
  ELSE IF norm < Lit(45, 100) THEN Sand
  ELSE IF norm < Lit(48, 100) THEN Grass
  ELSE IF norm < Lit(65, 100) THEN Dirt
  ELSE IF norm < Lit(75, 100) THEN Rock
  ELSE Snow

\* The second variant of Terrain.getColor: Rock up to 0.95.
getColor2(value) ==
  LET norm == Norm(value) IN
  IF norm < Lit(43, 100) THEN Water
  ELSE IF norm < Lit(45, 100) THEN Sand
  ELSE IF norm < Lit(48, 100) THEN Grass
  ELSE IF norm < Lit(65, 100) THEN Dirt
  ELSE IF norm < Lit(95, 100) THEN Rock
  ELSE Snow

\* A world coordinate handed to getValue: a fixed-point number, or the
\* negative double of least magnitude, -Number.MIN_VALUE (-5e-324), which
\* lies below the resolution of the fixed-point numbers.
Num(x) == [fix |-> x, tiny |-> FALSE]
NegMin == [fix |-> 0, tiny |-> TRUE]

\* Math.floor(x).
FloorOf(x) == IF x.tiny THEN -1 ELSE Floor(x.fix)
\* Math.floor(x / cs).  The quotient -Number.MIN_VALUE / cs is not a double
\* for cs >= 2: it rounds to -0, and Math.floor(-0) is -0.
FloorQuot(x, cs) == IF x.tiny THEN (IF cs = 1 THEN -1 ELSE 0) ELSE x.fix \div Fix(cs)

\* The decomposition of getValue (lines 161-166).
Decompose(cs, x, y) ==
  [chunkX |-> FloorQuot(x, cs),
   chunkY |-> FloorQuot(y, cs),
   localX |-> JsRem(JsRem(FloorOf(x), cs) + cs, cs),
   localY |-> JsRem(JsRem(FloorOf(y), cs) + cs, cs)]

\* chunk.tiles[localY][localX] ?? -1: "value" with the cell, "sentinel" for
\* undefined ?? -1 (a column outside the row), "throws" for tiles[localY]
\* undefined (a row outside the grid: reading [localX] of undefined is a
\* TypeError, and nothing is returned).
Cell(tiles, localX, localY) ==
  IF localY \notin DOMAIN tiles THEN [outcome |-> "throws", ret |-> 0]
  ELSE IF localX \notin DOMAIN tiles[localY] THEN [outcome |-> "sentinel", ret |-> -ONE]
  ELSE [outcome |-> "value", ret |-> tiles[localY][localX]]

\* The record of a getValue call: the terrain after it, the decomposition
\* and the cell read.
Read(t2, d) ==
  [terrain |-> t2, at |-> d,
   cell |-> Cell(t2.chunks[Key(d.chunkX, d.chunkY)].tiles, d.localX, d.localY)]

getValueAt(t, tbl, d) == Read(getChunk(t, tbl, d.chunkX, d.chunkY), d)

getValue(t, cs, tbl, x, y) == getValueAt(t, tbl, Decompose(cs, x, y))

\* The record of an isPositionWalkable call: the getValue call it makes and
\* what it returns.
\* Fault: isPositionWalkable comparing the value in place of norm.
WalkableRaw(g) == [read |-> g, ret |-> g.cell.ret >= Lit(43, 100)]

Walkable(g) == [read |-> g, ret |-> Norm(g.cell.ret) >= Lit(43, 100)]

isPositionWalkable(t, cs, tbl, x, y) == Walkable(getValue(t, cs, tbl, x, y))

viewRadius == 3

\* Fault: the loops of draw running from -viewRadius - 1 to viewRadius - 1.
WindowShifted(cs, cam) ==
  LET camChunkX == cam.x \div Fix(cs)
      camChunkY == cam.y \div Fix(cs)
      n == 2 * viewRadius + 1
  IN [i \in 1..(n * n) |->
        Key(camChunkX + ((i - 1) % n) - viewRadius - 1,
            camChunkY + ((i - 1) \div n) - viewRadius - 1)]

\* The chunk coordinates draw enumerates, in its order (dy outer, dx inner).
Window(cs, cam) ==
  LET camChunkX == cam.x \div Fix(cs)
      camChunkY == cam.y \div Fix(cs)
      n == 2 * viewRadius + 1
  IN [i \in 1..(n * n) |->
        Key(camChunkX + ((i - 1) % n) - viewRadius, camChunkY + ((i - 1) \div n) - viewRadius)]

\* The loops of draw from the i-th key on.  The terrain after getChunk is
\* bound through a singleton set, so that it is a value before the next
\* iteration starts.
RECURSIVE drawLoop(_, _, _, _)
drawLoop(t, tbl, keys, i) ==
  IF i > Len(keys) THEN t
  ELSE CHOOSE after \in {drawLoop(t2, tbl, keys, i + 1) :
                           t2 \in {getChunk(t, tbl, keys[i][1], keys[i][2])}} : TRUE

draw(t, cs, tbl, cam) == drawLoop(t, tbl, Window(cs, cam), 1)

\* ==== ENTITIES ====
PLAYER_SPEED == 50
MONSTER_SPEED == 20

\* Time is counted from performance.now() at construction (lastTime = 0).
\* new Player(0, 0), new Monster(10, 10), new Camera(): moveDir is {x: 0, y: 0}
\* (Entity), the monster's targetX, targetY are not set before the first loop.
NewPlayer == [x |-> Fix(0), y |-> Fix(0), moveDir |-> [x |-> 0, y |-> 0]]
NewMonster == [x |-> Fix(10), y |-> Fix(10), moveDir |-> [x |-> 0, y |-> 0],
               targetX |-> "undefined", targetY |-> "undefined"]
NewCamera == [x |-> Fix(0), y |-> Fix(0)]

\* The position an entity proposes: this.#x + (this.moveDir.x * moveStep) / TILE_SIZE.
Proposed(e, speed, deltaTime) ==
  LET moveStep == Lit(speed * deltaTime, 1000)
  IN [x |-> e.x + Mul(e.moveDir.x, moveStep) \div TILE_SIZE,
      y |-> e.y + Mul(e.moveDir.y, moveStep) \div TILE_SIZE]

\* The if of update: the entity after it, with the walkability call made.
\* Fault: update without the walkability test (Player.update of the second
\* variant, lines 570-574).
MovedAlways(e, new, w) ==
  [entity |-> [e EXCEPT !.x = new.x, !.y = new.y], proposed |-> new, call |-> w]

Moved(e, new, w) ==
  [entity |-> IF w.ret THEN [e EXCEPT !.x = new.x, !.y = new.y] ELSE e,
   proposed |-> new, call |-> w]

MoveTo(e, t, cs, tbl, new) ==
  Moved(e, new, isPositionWalkable(t, cs, tbl, Num(new.x), Num(new.y)))

\* Player.update.
PlayerUpdate(pl, t, cs, tbl, deltaTime) ==
  MoveTo(pl, t, cs, tbl, Proposed(pl, PLAYER_SPEED, deltaTime))

\* The moveDir of Monster.update: the unit vector to the target when the
\* target is further than 0.1.
Aim(mo, dx, dy, length) ==
  IF length > Lit(1, 10)
  THEN [mo EXCEPT !.moveDir = [x |-> Div(dx, length), y |-> Div(dy, length)]]
  ELSE mo

Turned(mo, dx, dy) == Aim(mo, dx, dy, Hypot(dx, dy))

\* Monster.update: the proposed position comes from the moveDir of before.
MonsterUpdate(mo, t, cs, tbl, deltaTime) ==
  MoveTo(Turned(mo, mo.targetX - mo.x, mo.targetY - mo.y), t, cs, tbl,
         Proposed(mo, MONSTER_SPEED, deltaTime))

\* Camera.follow, smoothSpeed 0.01.
follow(cam, targetX, targetY, deltaTime) ==
  LET t == getLerpFactor(deltaTime, Lit(1, 100))
  IN [x |-> lerp(t, cam.x, targetX), y |-> lerp(t, cam.y, targetY)]

\* ==== BOUNDS AND CONSTRUCTION ====

\* Bounds of the exploration.
MaxOps == 2
MaxFrames == 2

\* The chunkSize arguments of new Terrain(tileSize, chunkSize, noise) explored.
ChunkSizes == {8, CHUNK_EDGE, 32}

Constructed(tables, sizes) ==
  /\ p \in tables
  /\ chunkSize \in sizes
  /\ terrain = NewTerrain
  /\ player = NewPlayer
  /\ monster = NewMonster
  /\ camera = NewCamera
  /\ lastTime = 0
  /\ op = [name |-> "new"]
  /\ ops = 0
  /\ cams = {}
  /\ probes = {}

InWorld(key) == key[1] \in World /\ key[2] \in World
CamChunk(size, cam) == Key(cam.x \div Fix(size), cam.y \div Fix(size))
\* The chunk a getValue call asked getChunk for.
AtKey(g) == Key(g.at.chunkX, g.at.chunkY)

GameUnchanged == UNCHANGED <<player, monster, camera, lastTime>>

\* ---- pure functions, applied to bounded inputs ----
\* Fixed-point coordinates: lattice points and points between, both signs.
NoiseCoords == {Fix(-1), Fix(0), Fix(256), -Lit(5, 4), Lit(1, 2), Lit(3, 4), Fix(255) + Lit(1, 2)}
MaxOctaves == 3
HeightValues == {2 * Lit(n, 100) - ONE + d : n \in {0, 43, 45, 48, 65, 75, 95, 100}, d \in -2..2}

CallNoise ==
  \E x \in NoiseCoords, y \in NoiseCoords :
    /\ op' = [name |-> "noise", x |-> x, y |-> y, ret |-> noise(p, x, y)]
    /\ UNCHANGED <<p, chunkSize, terrain, ops, cams, probes>>
    /\ GameUnchanged

CallFbm ==
  \E x \in {Fix(0), Lit(1, 2), -Lit(1, 4)}, y \in {Fix(0), Lit(3, 4)}, octaves \in 1..MaxOctaves :
    /\ op' = [name |-> "fbm", x |-> x, y |-> y, octaves |-> octaves,
              ret |-> fbm(x, y, p, octaves, Lit(21, 10), Lit(45, 100))]
    /\ UNCHANGED <<p, chunkSize, terrain, ops, cams, probes>>
    /\ GameUnchanged

CallGetColor ==
  \E value \in HeightValues :
    /\ op' = [name |-> "getColor", value |-> value, ret |-> getColor(value),
              ret2 |-> getColor2(value)]
    /\ UNCHANGED <<p, chunkSize, terrain, ops, cams, probes>>
    /\ GameUnchanged

\* ---- Terrain operations ----
GetChunk(keys) ==
  \E k \in keys :
    /\ ops < MaxOps
    /\ terrain' = getChunk(terrain, p, k[1], k[2])
    /\ op' = [name |-> "getChunk", chunkX |-> k[1], chunkY |-> k[2]]
    /\ ops' = ops + 1
    /\ UNCHANGED <<p, chunkSize, cams, probes>>
    /\ GameUnchanged

GetValue(coords) ==
  /\ ops < MaxOps
  /\ \E c \in coords :
     \E g \in {getValue(terrain, chunkSize, p, c[1], c[2])} :
       /\ InWorld(AtKey(g))
       /\ terrain' = g.terrain
       /\ op' = [name |-> "getValue", x |-> c[1], y |-> c[2], at |-> g.at,
                 outcome |-> g.cell.outcome, ret |-> g.cell.ret]
       /\ ops' = ops + 1
       /\ probes' = probes \cup {AtKey(g)}
       /\ UNCHANGED <<p, chunkSize, cams>>
       /\ GameUnchanged

IsPositionWalkable(coords) ==
  /\ ops < MaxOps
  /\ \E c \in coords :
     \E w \in {isPositionWalkable(terrain, chunkSize, p, c[1], c[2])} :
       /\ InWorld(AtKey(w.read))
       /\ terrain' = w.read.terrain
       /\ op' = [name |-> "isPositionWalkable", x |-> c[1], y |-> c[2], at |-> w.read.at,
                 outcome |-> w.read.cell.outcome, value |-> w.read.cell.ret, ret |-> w.ret]
       /\ ops' = ops + 1
       /\ probes' = probes \cup {AtKey(w.read)}
       /\ UNCHANGED <<p, chunkSize, cams>>
       /\ GameUnchanged

Draw(cameras) ==
  \E cam \in cameras :
    /\ ops < MaxOps
    /\ \A i \in DOMAIN Window(chunkSize, cam) : InWorld(Window(chunkSize, cam)[i])
    /\ terrain' = draw(terrain, chunkSize, p, cam)
    /\ op' = [name |-> "draw", camera |-> cam]
    /\ ops' = ops + 1
    /\ cams' = cams \cup {CamChunk(chunkSize, cam)}
    /\ UNCHANGED <<p, chunkSize, probes>>
    /\ GameUnchanged

\* ==== GAME CLASS ====
\* new Terrain(TILE_SIZE, 16, this.noise)
GAME_CHUNK_SIZE == 16

\* The e.key values explored: the four bound keys and one that is not bound.
Keys == {"w", "a", "s", "d", "q"}
\* The frame times explored, in milliseconds: a 60 Hz frame, and frames
\* after the page was in the background for 1.6 and for 20 seconds.
DeltaTimes == {16, 1600, 20000}

KeyDown ==
  \E key \in Keys :
    /\ ops < MaxFrames
    /\ player' = [player EXCEPT
         !.moveDir.y = IF key = "s" THEN Fix(1) ELSE IF key = "w" THEN Fix(-1) ELSE @,
         !.moveDir.x = IF key = "d" THEN Fix(1) ELSE IF key = "a" THEN Fix(-1) ELSE @]
    /\ op' = [name |-> "keydown"]
    /\ UNCHANGED <<p, chunkSize, terrain, monster, camera, lastTime, ops, cams, probes>>

KeyUp ==
  \E key \in Keys :
    /\ ops < MaxFrames
    /\ player' = [player EXCEPT
         !.moveDir.y = IF key = "w" /\ @ = Fix(-1) THEN 0
                       ELSE IF key = "s" /\ @ = Fix(1) THEN 0 ELSE @,
         !.moveDir.x = IF key = "a" /\ @ = Fix(-1) THEN 0
                       ELSE IF key = "d" /\ @ = Fix(1) THEN 0 ELSE @]
    /\ op' = [name |-> "keyup"]
    /\ UNCHANGED <<p, chunkSize, terrain, monster, camera, lastTime, ops, cams, probes>>

\* loop(now): player.update, monster.update, camera.follow, terrain.draw; the
\* draw calls of the entities and clearRect only paint.
Loop ==
  /\ ops < MaxFrames
  /\ \E deltaTime \in DeltaTimes :
     \E pu \in {PlayerUpdate(player, terrain, chunkSize, p, deltaTime)} :
     \E mu \in {MonsterUpdate([monster EXCEPT !.targetX = pu.entity.x, !.targetY = pu.entity.y],
                              pu.call.read.terrain, chunkSize, p, deltaTime)} :
     \E cam \in {follow(camera, pu.entity.x, pu.entity.y, deltaTime)} :
       /\ InWorld(AtKey(pu.call.read))
       /\ InWorld(AtKey(mu.call.read))
       /\ \A i \in DOMAIN Window(chunkSize, cam) : InWorld(Window(chunkSize, cam)[i])
       /\ lastTime' = lastTime + deltaTime
       /\ player' = pu.entity
       /\ monster' = mu.entity
       /\ camera' = cam
       /\ terrain' = draw(mu.call.read.terrain, chunkSize, p, cam)
       /\ op' = [name |-> "loop", deltaTime |-> deltaTime,
                 proposed |-> pu.proposed, walkable |-> pu.call.ret,
                 outcome |-> pu.call.read.cell.outcome, value |-> pu.call.read.cell.ret,
                 monsterProposed |-> mu.proposed, monsterWalkable |-> mu.call.ret]
       /\ ops' = ops + 1
       /\ cams' = cams \cup {CamChunk(chunkSize, cam)}
       /\ probes' = probes \cup {AtKey(pu.call.read), AtKey(mu.call.read)}
       /\ UNCHANGED <<p, chunkSize>>

\* ==== SPECIFICATIONS ====
\* The pure functions on bounded inputs, and getValue on a fresh Terrain.
OriginCoords == {<<Num(Fix(0)), Num(Fix(0))>>}
NoiseInit == Constructed(Tables, ChunkSizes)
NoiseNext == CallNoise \/ CallFbm \/ CallGetColor \/ GetValue(OriginCoords)
SpecNoise == NoiseInit /\ [][NoiseNext]_vars

\* Any sequence of Terrain operations on one Terrain.
TerrainKeys == {Key(0, 0), Key(-1, 0), Key(1, -2)}
TerrainCoords == {<<Num(Fix(0)), Num(Fix(0))>>, <<Num(Fix(-1)), Num(Fix(20))>>,
                  <<Num(-Lit(1, 4)), Num(Lit(63, 4))>>, <<Num(Fix(16)), Num(Fix(-17))>>,
                  <<Num(Lit(-65, 2)), Num(Fix(31))>>, <<Num(Fix(-50)), Num(Fix(0))>>,
                  <<NegMin, Num(Fix(0))>>}
TerrainCameras == {NewCamera, [x |-> -Lit(1, 100), y |-> Fix(5)]}
TerrainInit == Constructed(WorldTables, ChunkSizes)
TerrainNext ==
  \/ GetChunk(TerrainKeys)
  \/ GetValue(TerrainCoords)
  \/ IsPositionWalkable(TerrainCoords)
  \/ Draw(TerrainCameras)
SpecTerrain == TerrainInit /\ [][TerrainNext]_vars

\* A session: key events and frames after new Game().
Init == Constructed(WorldTables, {GAME_CHUNK_SIZE})
Next == KeyDown \/ KeyUp \/ Loop
Spec == Init /\ [][Next]_vars

\* ==== PROPERTIES ====
Abs(n) == IF n < 0 THEN -n ELSE n
Chebyshev(k, c) ==
  IF Abs(k[1] - c[1]) >= Abs(k[2] - c[2]) THEN Abs(k[1] - c[1]) ELSE Abs(k[2] - c[2])
\* A chunk coordinate lies in the window of some draw made so far.
Drawn(k) == \E c \in cams : Chebyshev(k, c) <= viewRadius

\* C1: for every chunk coordinate, after any sequence of Terrain operations,
\* at most one Chunk was constructed for it, and exactly one once getChunk
\* was called for it at least once.
AtMostOnceGeneration ==
  \A k \in DOMAIN terrain.asked \cup DOMAIN terrain.built :
    /\ Count(terrain.built, k) <= 1
    /\ Count(terrain.asked, k) >= 1 => Count(terrain.built, k) = 1
\* getChunk was called twice or more for one coordinate.
AskedAgain ==
  \E k \in DOMAIN terrain.asked : terrain.asked[k] >= 2 /\ Count(terrain.built, k) = 1

\* C2: the decomposition computed by getValue reconstructs the floor of the
\* world coordinate, chunkX * chunkSize + localX = floor(x) and the same in
\* y, with both local indices in 0..chunkSize-1, for integer and for
\* non-integer coordinates.
DecompositionReconstructs ==
  op.name \in {"getValue", "isPositionWalkable"} =>
    /\ op.at.chunkX * chunkSize + op.at.localX = FloorOf(op.x)
    /\ op.at.chunkY * chunkSize + op.at.localY = FloorOf(op.y)
    /\ op.at.localX \in 0..(chunkSize - 1)
    /\ op.at.localY \in 0..(chunkSize - 1)

\* C3 as stated: every chunk in the cache lies within Chebyshev distance
\* viewRadius of the camera chunk of some draw made so far.
DrawIsSoleTrigger == \A k \in DOMAIN terrain.chunks : Drawn(k)
\* C3, amended: every chunk in the cache lies in the window of some draw made
\* so far, or is the chunk of a position that an entity update asked
\* isPositionWalkable (getValue) for.
CachedByDrawOrProbe == \A k \in DOMAIN terrain.chunks : Drawn(k) \/ k \in probes
\* A frame was drawn and the cache holds a chunk that only a walkability
\* test asked for.
ProbeBeyondWindow ==
  /\ cams # {}
  /\ \E k \in DOMAIN terrain.chunks : k \in probes /\ ~Drawn(k)

\* C4: the first 256 entries of the table are a permutation of 0..255 and
\* entries 256..511 mirror them.
TableIsPermutation ==
  /\ {p[i] : i \in 0..255} = 0..255
  /\ \A i \in 0..255 : p[i + 256] = p[i]

\* C5: for every chunkSize and every coordinate, getValue reads a generated
\* cell: it neither returns the sentinel -1 nor fails in the grid lookup.
FallbackUnreachable ==
  op.name \in {"getValue", "isPositionWalkable"} => op.outcome = "value"

\* C6: once a coordinate is a key of the cache, after every operation it
\* still is, and it maps to the same chunk with the same tiles.
CacheStable ==
  [][\A k \in DOMAIN terrain.chunks :
       k \in DOMAIN terrain'.chunks /\ terrain'.chunks[k] = terrain.chunks[k]]_vars
\* Two operations were made and the cache holds several chunks.
CacheGrown == ops >= 2 /\ Cardinality(DOMAIN terrain.chunks) >= 2

\* C7: isPositionWalkable(x, y) returns true exactly when getColor of
\* getValue(x, y) is not Water, that is when (getValue(x, y) + 1) / 2 >= 0.43.
WalkableIffNotWater ==
  op.name = "isPositionWalkable" /\ op.outcome # "throws" =>
    /\ op.value = getValue(terrain, chunkSize, p, op.x, op.y).cell.ret
    /\ op.ret <=> getColor(op.value) # Water
    /\ op.ret <=> Norm(op.value) >= Lit(43, 100)
\* isPositionWalkable read a generated cell and returned false.
WaterRefused ==
  op.name = "isPositionWalkable" /\ op.outcome = "value" /\ ~op.ret

\* The classes in their order, and the class of a norm by the intervals,
\* with rockSnow the Rock/Snow threshold.
Classes == <<Water, Sand, Grass, Dirt, Rock, Snow>>
Rank(class) == CHOOSE i \in DOMAIN Classes : Classes[i] = class
Lower(rockSnow) ==
  <<Lit(0, 100), Lit(43, 100), Lit(45, 100), Lit(48, 100), Lit(65, 100), rockSnow>>
ClassOf(norm, rockSnow) ==
  CHOOSE i \in DOMAIN Classes :
    /\ i > 1 => Lower(rockSnow)[i] <= norm
    /\ i < Len(Classes) => norm < Lower(rockSnow)[i + 1]

\* C8: getColor returns the class of the interval norm lies in, lower
\* boundary included, with the Rock/Snow threshold 0.75 (0.95 in the second
\* variant), and it is non-decreasing in the value.
StepFunction ==
  op.name = "getColor" =>
    /\ Rank(op.ret) = ClassOf(Norm(op.value), Lit(75, 100))
    /\ Rank(op.ret2) = ClassOf(Norm(op.value), Lit(95, 100))
    /\ \A v \in HeightValues :
         v <= op.value => /\ Rank(getColor(v)) <= Rank(op.ret)
                          /\ Rank(getColor2(v)) <= Rank(op.ret2)
\* getColor was called with norm exactly 0.43 and returned Sand.
SandAtBoundary ==
  op.name = "getColor" /\ Norm(op.value) = Lit(43, 100) /\ op.ret = Sand

\* C9: noise is 0 at every pair of integers, whatever the table; fbm is 0 at
\* the origin for every octave count; getValue(0, 0) is 0.
ZeroOnLattice ==
  /\ op.name = "noise" /\ op.x % ONE = 0 /\ op.y % ONE = 0 => op.ret = 0
  /\ op.name = "fbm" /\ op.x = 0 /\ op.y = 0 => op.ret = 0
  /\ op.name = "getValue" /\ op.x = Num(0) /\ op.y = Num(0) =>
       op.outcome = "value" /\ op.ret = 0
\* noise was called at a lattice point off the origin, with a table that is
\* no permutation.
LatticeCall ==
  /\ op.name = "noise" /\ op.x = Fix(-1) /\ op.y = Fix(256) /\ op.ret = 0
  /\ {p[i] : i \in 0..255} # 0..255

\* C10: in every state of a session the position of the player is walkable,
\* and a frame whose proposed position is not walkable leaves the position
\* of the player unchanged.
PlayerNeverOnWater ==
  /\ [](isPositionWalkable(terrain, chunkSize, p, Num(player.x), Num(player.y)).ret)
  /\ [][op'.name = "loop" /\ ops' = ops + 1 /\ ~op'.walkable =>
          player'.x = player.x /\ player'.y = player.y]_vars
\* A frame proposed a position that is not walkable.
FrameBlocked ==
  /\ op.name = "loop" /\ ~op.walkable
  /\ op.proposed.x # player.x /\ op.proposed.y # player.y
====
